---------------------------- MODULE Spec2Model ----------------------------
(***************************************************************************)
(* ethq: per-queue NIC statistics.  Model of src/ethq.cc: the counter-name *)
(* parser and queue index builder (EthQApp::build_queue_map), the startup  *)
(* sequence (EthQApp::handleArgs, main) and the polling loop               *)
(* (EthQApp::run, get_stats, get_deltas, redraw, key_pressed).             *)
(*                                                                         *)
(* Representation choices                                                  *)
(*  - a std::string is a sequence of one-character strings; C++ positions  *)
(*    are 0-based, so position p of s is s[p+1];                           *)
(*  - a size_t is represented by its two's-complement signed reading: the  *)
(*    integer n >= 0 stands for n and n < 0 stands for 2^64 + n.  Hence    *)
(*    std::string::npos is -1 and (size_t)(int)-1 is -1.  Comparisons of   *)
(*    size_t values go through ULess;                                      *)
(*  - a uint64_t counter is an integer modulo UMod = 2^CounterBits, the    *)
(*    width being scaled down from 64 bits;                                *)
(*  - an access outside a std::vector's elements is undefined behaviour:   *)
(*    the model offers every outcome a build produces (a checked build     *)
(*    aborts, an unchecked build reads or writes whatever is there).       *)
(***************************************************************************)
EXTENDS Integers, Sequences, FiniteSets, TLC

\* ------------------------------------------------------------------ bounds
MaxNames == 2
MaxTicks == 2
CounterBits == 4

UMod == 2 ^ CounterBits
HalfMod == UMod \div 2

\* --------------------------------------------------------- program constants
INT_MAX == 2147483647
EXIT_FAILURE == 1
UNSET == 0 - 1
NSLOTS == 4
npos == 0 - 1

\* ----------------------------------------------------------- std::string
Size(s) == Len(s)
At(s, p) == s[p + 1]

\* s.find(c, pos): first position >= pos holding c, npos when there is none
RECURSIVE FindChar(_, _, _)
FindChar(s, c, pos) ==
    IF pos < 0 \/ pos >= Size(s) THEN npos
    ELSE IF At(s, pos) = c THEN pos
    ELSE FindChar(s, c, pos + 1)

\* s.find(p) == 0
StartsWith(s, p) ==
    /\ Size(s) >= Size(p)
    /\ \A k \in 1..Size(p) : s[k] = p[k]

\* s.substr(pos, n), for pos <= size()
Substr(s, pos, n) ==
    LET last == IF pos + n > Size(s) THEN Size(s) ELSE pos + n
    IN  [k \in 1..(last - pos) |-> s[pos + k]]

\* s.substr(pos)
SubstrFrom(s, pos) == Substr(s, pos, Size(s) - pos)

\* ------------------------------------------------------------- std::stoi
DigitChars == <<"0", "1", "2", "3", "4", "5", "6", "7", "8", "9">>
IsDigit(c) == \E d \in 1..10 : DigitChars[d] = c
DigitVal(c) == (CHOOSE d \in 1..10 : DigitChars[d] = c) - 1
IsSpace(c) == c \in {" ", "\t", "\n", "\r", "\f"}

RECURSIVE SkipSpace(_, _)
SkipSpace(s, p) ==
    IF p < Size(s) /\ IsSpace(At(s, p)) THEN SkipSpace(s, p + 1) ELSE p

\* would acc*10 + d (acc*10 - d when negative) leave the range of int
Overflows(neg, acc, d) ==
    IF neg
    THEN (0 - acc) > (INT_MAX - (IF d = 0 THEN 0 ELSE d - 1)) \div 10
    ELSE acc > (INT_MAX - d) \div 10

\* the digit run starting at p: where it ends, its value, whether it left int
RECURSIVE DigitRun(_, _, _, _, _)
DigitRun(s, p, neg, acc, over) ==
    IF p < Size(s) /\ IsDigit(At(s, p))
    THEN LET d == DigitVal(At(s, p))
             o == over \/ Overflows(neg, acc, d)
         IN  DigitRun(s, p + 1, neg,
                      IF o THEN acc
                      ELSE IF neg THEN acc * 10 - d ELSE acc * 10 + d,
                      o)
    ELSE [end |-> p, value |-> acc, over |-> over]

\* std::stoi(s, &eon): leading white space, an optional sign, decimal digits
Stoi(s) ==
    LET ws    == SkipSpace(s, 0)
        sign  == ws < Size(s) /\ At(s, ws) \in {"+", "-"}
        neg   == sign /\ At(s, ws) = "-"
        start == IF sign THEN ws + 1 ELSE ws
        run   == DigitRun(s, start, neg, 0, FALSE)
    IN  IF run.end = start
        THEN [status |-> "invalid_argument", value |-> 0, eon |-> 0]
        ELSE IF run.over
        THEN [status |-> "out_of_range", value |-> 0, eon |-> 0]
        ELSE [status |-> "ok", value |-> run.value, eon |-> run.end]

\* ------------------------------------------------------------- size_t
ULess(a, b) == IF (a < 0) = (b < 0) THEN a < b ELSE b < 0
UMax(a, b) == IF ULess(a, b) THEN b ELSE a
SizeInc(q) == q + 1

\* ---------------------------------------------------- build_queue_map
C_tx == <<"t", "x", "-">>
C_rx == <<"r", "x", "-">>
C_bytes == <<"b", "y", "t", "e", "s">>

\* the offset into the four entry structure
OffsetMutSwapLanes(rx, type) ==
    (IF rx THEN 2 ELSE 0) + (IF type = C_bytes THEN 1 ELSE 0)

Offset(rx, type) ==
    (IF rx THEN 1 ELSE 0) + (IF type = C_bytes THEN 2 ELSE 0)

\* one iteration of the loop body on one name: "continue", an exception of
\* std::stoi, or the entry stored in qmap
MatchName(name) ==
    LET tx  == StartsWith(name, C_tx)
        rx  == StartsWith(name, C_rx)
        dot == FindChar(name, ".", 3)
        tmp == Substr(name, 3, dot - 3)
        num == Stoi(tmp)
        under == FindChar(name, "_", dot + 3)
        type  == SubstrFrom(name, under + 1)
    IN  IF ~(rx \/ tx) THEN [kind |-> "continue"]
        ELSE IF dot = npos THEN [kind |-> "continue"]
        ELSE IF num.status # "ok" THEN [kind |-> "throw", what |-> num.status]
        ELSE IF num.eon < Size(tmp) THEN [kind |-> "continue"]
        ELSE IF under = npos THEN [kind |-> "continue"]
        ELSE [kind |-> "entry", queue |-> num.value, offset |-> Offset(rx, type)]

\* ------------------------------------------------------- counter names
C_packets == <<"p", "a", "c", "k", "e", "t", "s">>
C_total == <<"_", "t", "o", "t", "a", "l">>

\* "<dir><qtext>.<mid>_<kind>", dir being "rx-" or "tx-"
Name(dir, qtext, mid, kind) == dir \o qtext \o <<".">> \o mid \o <<"_">> \o kind
Mid(dir) == SubSeq(dir, 1, 2)

\* the eight names of two queues, both directions, packets and bytes
QueueNames ==
    { Name(d, q, Mid(d), k) : d \in {C_rx, C_tx}, q \in {<<"0">>, <<"1">>},
                              k \in {C_packets, C_bytes} }

\* texts between '-' and '.' that are not in full a decimal number
BadQueueTexts ==
    { <<>>, <<"x">>, <<"2", "x">>, <<"-", "1">>, <<"-", "2">>, <<"+", "1">>,
      <<" ", "1">>, <<"9", "9", "9", "9", "9", "9", "9", "9", "9", "9">> }

BadQueueNames == { Name(C_rx, q, Mid(C_rx), C_bytes) : q \in BadQueueTexts }

LinkDownEvents ==
    <<"l", "i", "n", "k", "_", "d", "o", "w", "n", "_", "e", "v", "e", "n", "t", "s">>

OtherNames ==
    { LinkDownEvents,
      C_rx \o <<"0">>,                                   \* no '.'
      C_rx \o <<"0", ".", "r", "x">>,                    \* no '_'
      C_rx \o <<"0", ".", "a", "_">> \o C_bytes,         \* '_' before dot + 3
      Name(C_tx, <<"0">>, Mid(C_rx), C_bytes),           \* tx-0.rx_bytes
      Name(C_rx, <<"1">>, Mid(C_rx), C_bytes \o C_total) \* rx-1.rx_bytes_total
    }

ParseNames == QueueNames \cup BadQueueNames \cup OtherNames

\* Scenario 1 of the specification's testable properties
Scenario1 ==
    << Name(C_rx, <<"0">>, Mid(C_rx), C_packets), Name(C_rx, <<"0">>, Mid(C_rx), C_bytes),
       Name(C_tx, <<"0">>, Mid(C_tx), C_packets), Name(C_tx, <<"0">>, Mid(C_tx), C_bytes),
       Name(C_rx, <<"1">>, Mid(C_rx), C_packets), Name(C_rx, <<"1">>, Mid(C_rx), C_bytes),
       Name(C_tx, <<"1">>, Mid(C_tx), C_packets), Name(C_tx, <<"1">>, Mid(C_tx), C_bytes) >>

\* the names the polling runs are started with
RunNames ==
    { Name(C_tx, <<"0">>, Mid(C_tx), C_bytes),     \* (0, TxBytes)
      Name(C_tx, <<"0">>, Mid(C_rx), C_bytes),     \* (0, TxBytes) again
      Name(C_tx, <<"1">>, Mid(C_tx), C_bytes),     \* (1, TxBytes)
      Name(C_rx, <<"0">>, Mid(C_rx), C_packets),   \* (0, RxPackets)
      LinkDownEvents,
      Name(C_rx, <<"-", "1">>, Mid(C_rx), C_bytes),
      Name(C_rx, <<"x">>, Mid(C_rx), C_bytes) }

Lists(S, n) == UNION { [1..m -> S] : m \in 0..n }

ArgCounts == 1..3
Chars == {"q", "Q", "x"}
CounterSamples == {0, 1, UMod - 1}

\* ------------------------------------------------------------------ state
VARIABLES
    names,    \* ethtool->stringset(ETH_SS_STATS)
    pc,       \* position of the process
    i,        \* build_queue_map's loop index
    qmap,     \* string entry number -> [queue, offset]
    qcount,
    prev,     \* stats_list_t, queue -> slot -> counter
    delta,    \* stats_list_t: [size, store], store being the reserved storage
    total,    \* queuestats_t
    raw,      \* the array returned by the last ethtool->stats()
    screen,   \* what redraw last painted
    key,      \* ch, what the input check of the current iteration found
    ticks,    \* get_deltas calls so far
    nfetch,   \* ethtool->stats() calls so far
    npoll,    \* key_pressed() calls so far
    res,      \* main's exit status
    err       \* the diagnostic on standard error

vars == <<names, pc, i, qmap, qcount, prev, delta, total, raw, screen, key,
          ticks, nfetch, npoll, res, err>>

Slots == 0..(NSLOTS - 1)
ZeroStats == [s \in Slots |-> 0]
\* stats_list_t(n): n value-initialised records
StatsList(n) == [q \in 0..(n - 1) |-> ZeroStats]
Blank == [rows |-> <<>>, total |-> <<>>, gbps8 |-> <<>>]

InitWith(nameLists) ==
    /\ names \in nameLists
    /\ pc = "main"
    /\ i = 0
    /\ qmap = <<>>
    /\ qcount = 0
    /\ prev = <<>>
    /\ delta = [size |-> 0, store |-> <<>>]
    /\ total = ZeroStats
    /\ raw = <<>>
    /\ screen = Blank
    /\ key = "none"
    /\ ticks = 0
    /\ nfetch = 0
    /\ npoll = 0
    /\ res = UNSET
    /\ err = ""

Init == InitWith(Lists(RunNames, MaxNames))
InitParse == InitWith(Lists(ParseNames, MaxNames) \cup {Scenario1})

\* main's catch (const std::exception&): diagnostic, EXIT_FAILURE
Caught(what) ==
    /\ pc' = "exit"
    /\ res' = EXIT_FAILURE
    /\ err' = what

\* the process is ended by a signal, main returns nothing
Killed(signal) ==
    /\ pc' = "killed"
    /\ err' = signal
    /\ UNCHANGED res

\* ------------------------------------------------------------ handleArgs
HandleArgs ==
    /\ pc = "main"
    /\ \E argc \in ArgCounts :
         IF argc # 2
         THEN /\ Caught("usage: ethq <interface>")
              /\ UNCHANGED i
         ELSE /\ pc' = "build"
              /\ i' = 0
              /\ UNCHANGED <<res, err>>
    /\ UNCHANGED <<names, qmap, qcount, prev, delta, total, raw, screen, key,
                   ticks, nfetch, npoll>>

\* one iteration of build_queue_map's loop
BuildStep ==
    /\ pc = "build"
    /\ i < Len(names)
    /\ LET m == MatchName(names[i + 1])
       IN  CASE m.kind = "continue" ->
                  /\ i' = i + 1
                  /\ UNCHANGED <<pc, qmap, qcount, res, err>>
             [] m.kind = "throw" ->
                  /\ Caught(m.what)
                  /\ UNCHANGED <<i, qmap, qcount>>
             [] m.kind = "entry" ->
                  /\ qmap' = [k \in DOMAIN qmap \cup {i} |->
                                 IF k = i THEN [queue |-> m.queue, offset |-> m.offset]
                                 ELSE qmap[k]]
                  /\ qcount' = UMax(SizeInc(m.queue), qcount)
                  /\ i' = i + 1
                  /\ UNCHANGED <<pc, res, err>>
    /\ UNCHANGED <<names, prev, delta, total, raw, screen, key, ticks, nfetch, npoll>>

\* the test handleArgs makes once the map is built
NoQueuesMutNoCheck(n) == FALSE

NoQueues(n) == n = 0

\* the rest of handleArgs: the queue count test and delta.reserve(qcount);
\* a count of 2^63 or more is beyond max_size() and reserve throws
BuildDone ==
    /\ pc = "build"
    /\ i = Len(names)
    /\ IF NoQueues(qcount)
       THEN /\ Caught("No NIC queues found")
            /\ UNCHANGED delta
       ELSE IF qcount < 0
       THEN /\ Caught("vector::reserve")
            /\ UNCHANGED delta
       ELSE /\ pc' = "run"
            /\ delta' = [size |-> 0, store |-> StatsList(qcount)]
            /\ UNCHANGED <<res, err>>
    /\ UNCHANGED <<names, i, qmap, qcount, prev, total, raw, screen, key,
                   ticks, nfetch, npoll>>

NextParse == HandleArgs \/ BuildStep \/ BuildDone
SpecParse == InitParse /\ [][NextParse]_vars

\* ------------------------------------------------------------- get_stats
\* what ethtool->stats() may return for n names: n counters, or one fewer;
\* the counter at position k holds base + k
Fetches(n) ==
    { [k \in 1..m |-> (a + (k - 1)) % UMod] :
        m \in {n - 1, n} \cap Nat, a \in CounterSamples }

\* i < v.size() for a vector of qc records
InVector(q, qc) == ULess(q, qc)

\* some raw[id] or results[queue] of get_stats lies outside its vector
OutOfRange(qm, qc, rawv) ==
    \E id \in DOMAIN qm : id >= Len(rawv) \/ ~InVector(qm[id].queue, qc)

\* results[queue].counts[offset] = v; outside the vector the store does not
\* land in results
Store(results, queue, offset, v, qc) ==
    IF InVector(queue, qc)
    THEN [results EXCEPT ![queue] = [@ EXCEPT ![offset] = v]]
    ELSE results

\* raw[id]; outside the array the value read is whatever is there
RawAt(rawv, id) == IF id < Len(rawv) THEN {rawv[id + 1]} ELSE CounterSamples

\* the loop over qmap from key k on, in the map's ascending key order: the
\* set of results the loop may end with
RECURSIVE Project(_, _, _, _, _, _)
Project(k, n, qm, qc, rawv, results) ==
    IF k >= n THEN {results}
    ELSE IF k \notin DOMAIN qm THEN Project(k + 1, n, qm, qc, rawv, results)
    ELSE UNION { Project(k + 1, n, qm, qc, rawv,
                         Store(results, qm[k].queue, qm[k].offset, v, qc)) :
                 v \in RawAt(rawv, k) }

\* the same loop in descending key order
RECURSIVE ProjectDown(_, _, _, _, _)
ProjectDown(k, qm, qc, rawv, results) ==
    IF k < 0 THEN {results}
    ELSE IF k \notin DOMAIN qm THEN ProjectDown(k - 1, qm, qc, rawv, results)
    ELSE UNION { ProjectDown(k - 1, qm, qc, rawv,
                             Store(results, qm[k].queue, qm[k].offset, v, qc)) :
                 v \in RawAt(rawv, k) }

GetStatsMutFirstWins(n, qm, qc, rawv) == ProjectDown(n - 1, qm, qc, rawv, StatsList(qc))

\* get_stats() on the array rawv: the possible return values
GetStats(n, qm, qc, rawv) == Project(0, n, qm, qc, rawv, StatsList(qc))

\* ------------------------------------------------------------ get_deltas
\* the reading of a stored 64-bit pattern as int64_t (printf's %ld)
ToSigned(x) == IF x >= HalfMod THEN x - UMod ELSE x

\* int64_t d = stats - prev, stored back into a uint64_t
DiffMutClamp(cur, old) == IF cur < old THEN 0 ELSE cur - old

Diff(cur, old) == (cur - old) % UMod

Deltas(stats, pv, qc) ==
    [q \in 0..(qc - 1) |-> [s \in Slots |-> Diff(stats[q][s], pv[q][s])]]

\* total.counts[j] += d over the queues q..qc-1, starting from acc
RECURSIVE Accumulate(_, _, _, _, _)
Accumulate(acc, d, s, q, qc) ==
    IF q >= qc THEN acc
    ELSE Accumulate((acc + ToSigned(d[q][s])) % UMod, d, s, q + 1, qc)

TotalsMutCarry(old, d, qc) == [s \in Slots |-> Accumulate(old[s], d, s, 0, qc)]

\* total is zeroed, then accumulated
Totals(old, d, qc) == [s \in Slots |-> Accumulate(0, d, s, 0, qc)]

\* ------------------------------------------------------------------- run
\* prev = get_stats(), the panel is created
Seed ==
    /\ pc = "run"
    /\ \E rawv \in Fetches(Len(names)) :
         /\ raw' = rawv
         /\ prev' \in GetStats(Len(names), qmap, qcount, rawv)
    /\ nfetch' = nfetch + 1
    /\ pc' = "sleep"
    /\ UNCHANGED <<names, i, qmap, qcount, delta, total, screen, key, ticks,
                   npoll, res, err>>

\* one second later: get_deltas().  delta[i] addresses the storage reserved
\* in handleArgs, beyond delta.size()
GetDeltas ==
    /\ pc = "sleep"
    /\ ticks < MaxTicks
    /\ \E rawv \in Fetches(Len(names)) :
         \E stats \in GetStats(Len(names), qmap, qcount, rawv) :
            LET d == Deltas(stats, prev, qcount)
            IN  /\ raw' = rawv
                /\ delta' = [delta EXCEPT !.store = d]
                /\ total' = Totals(total, d, qcount)
                /\ prev' = stats
    /\ nfetch' = nfetch + 1
    /\ ticks' = ticks + 1
    /\ key' = "none"
    /\ pc' = "redraw"
    /\ UNCHANGED <<names, i, qmap, qcount, screen, npoll, res, err>>

\* get_stats in a build where the access outside raw or results faults
StatsFault ==
    /\ pc \in {"run", "sleep"}
    /\ pc = "sleep" => ticks < MaxTicks
    /\ \E rawv \in Fetches(Len(names)) :
         /\ OutOfRange(qmap, qcount, rawv)
         /\ raw' = rawv
    /\ nfetch' = nfetch + 1
    /\ Killed("SIGSEGV")
    /\ UNCHANGED <<names, i, qmap, qcount, prev, delta, total, screen, key,
                   ticks, npoll>>

\* get_deltas in a build whose operator[] checks the index against size()
VectorAbort ==
    /\ pc = "sleep"
    /\ ticks < MaxTicks
    /\ delta.size < qcount
    /\ \E rawv \in Fetches(Len(names)) :
         /\ ~OutOfRange(qmap, qcount, rawv)
         /\ raw' = rawv
    /\ nfetch' = nfetch + 1
    /\ ticks' = ticks + 1
    /\ total' = ZeroStats
    /\ key' = "none"
    /\ Killed("SIGABRT")
    /\ UNCHANGED <<names, i, qmap, qcount, prev, delta, screen, npoll>>

\* redraw(): one row per queue, the totals, the bytes lanes times 8
Redraw ==
    /\ pc = "redraw"
    /\ screen' = [rows  |-> [q \in 0..(qcount - 1) |->
                                [s \in Slots |-> ToSigned(delta.store[q][s])]],
                  total |-> [s \in Slots |-> ToSigned(total[s])],
                  gbps8 |-> <<8 * total[2], 8 * total[3]>>]
    /\ pc' = "key"
    /\ UNCHANGED <<names, i, qmap, qcount, prev, delta, total, raw, key, ticks,
                   nfetch, npoll, res, err>>

IsQuitMutLowerOnly(ch) == ch = "q"

IsQuit(ch) == ch = "q" \/ ch = "Q"

\* key_pressed() and, with input pending, panel->getch()
KeyCheck ==
    /\ pc = "key"
    /\ \E input \in {"none"} \cup Chars :
         /\ key' = input
         /\ IF input # "none" /\ IsQuit(input)
            THEN /\ pc' = "exit"
                 /\ res' = 0
            ELSE /\ pc' = "sleep"
                 /\ UNCHANGED res
    /\ npoll' = npoll + 1
    /\ UNCHANGED <<names, i, qmap, qcount, prev, delta, total, raw, screen,
                   ticks, nfetch, err>>

Next ==
    \/ HandleArgs
    \/ BuildStep
    \/ BuildDone
    \/ Seed
    \/ GetDeltas
    \/ StatsFault
    \/ VectorAbort
    \/ Redraw
    \/ KeyCheck

Spec == Init /\ [][Next]_vars

\* ===================================================================
\* Properties
\* ===================================================================
TxPackets == 0
RxPackets == 1
TxBytes == 2
RxBytes == 3

Usage == "usage: ethq <interface>"
NoQueuesFound == "No NIC queues found"
StoiErrors == {"invalid_argument", "out_of_range"}

\* build_queue_map has returned
Built == (pc = "build" /\ i = Len(names)) \/ pc \in {"run", "sleep", "redraw", "key"}

\* the polling loop: the seeding fetch and everything after it
InRun == pc \in {"run", "sleep", "redraw", "key"}

\* ------------------------------------------------------------------ C1
\* C1: whenever the queue count is 0 no counter fetch, no seeding of prev
\* and no tick has been executed and the process is still starting up or has
\* exited; once it has exited the status is non-zero and a diagnostic was
\* written, and when build_queue_map ran to its end the diagnostic is the
\* configuration error "No NIC queues found".
C1_ZeroQueuesHalt ==
    qcount = 0 =>
       /\ pc \in {"main", "build", "exit"}
       /\ nfetch = 0 /\ ticks = 0 /\ npoll = 0
       /\ prev = <<>> /\ raw = <<>> /\ screen = Blank
       /\ pc = "exit" =>
            /\ res = EXIT_FAILURE /\ res # 0
            /\ err \in {Usage, NoQueuesFound} \cup StoiErrors
            /\ (i = Len(names) /\ err # Usage) => err = NoQueuesFound

\* a list with names, none of them matched, has been refused
C1_Witness ==
    /\ pc = "exit" /\ err = NoQueuesFound /\ res = EXIT_FAILURE
    /\ Len(names) = MaxNames /\ qmap = <<>> /\ qcount = 0

\* ------------------------------------------------------------------ C2
\* the largest queue index recorded in the map, as a size_t
MaxQueue(qm) ==
    CHOOSE q \in {qm[k].queue : k \in DOMAIN qm} :
        \A k \in DOMAIN qm : ~ULess(q, qm[k].queue)

\* C2: after build_queue_map the queue count is one plus the maximum queue
\* index recorded in the index map, and 0 when nothing was recorded.  (A
\* maximum of 2^64 - 1, read -1, has no successor among the size_t values.)
C2_QueueCountIsMaxPlusOne ==
    Built =>
       IF DOMAIN qmap = {} THEN qcount = 0
       ELSE /\ MaxQueue(qmap) # 0 - 1
            /\ qcount = MaxQueue(qmap) + 1

\* ------------------------------------------------------------------ C6
HasPrefix(name) == StartsWith(name, C_rx) \/ StartsWith(name, C_tx)
AllDigits(t) == Len(t) > 0 /\ \A k \in 1..Len(t) : IsDigit(t[k])

\* the name has the prefix and a following '.', and the text between '-' and
\* '.' is not in full a non-negative base-10 integer
BadQueueText(name) ==
    /\ HasPrefix(name)
    /\ FindChar(name, ".", 3) # npos
    /\ ~AllDigits(Substr(name, 3, FindChar(name, ".", 3) - 3))

\* C6: the loop iteration on a name whose queue text is not in full a
\* non-negative base-10 integer records no entry, leaves qcount alone, raises
\* no error and goes on to the next name.
C6_BadQueueTextIsSkipped ==
    [][(pc = "build" /\ i < Len(names) /\ BadQueueText(names[i + 1])) =>
          /\ pc' = "build" /\ i' = i + 1
          /\ qmap' = qmap /\ qcount' = qcount
          /\ err' = "" /\ res' = UNSET]_vars

\* ------------------------------------------------------------------ C7
\* the counter kind: what follows the underscore
KindOf(name) ==
    SubstrFrom(name, FindChar(name, "_", FindChar(name, ".", 3) + 3) + 1)

SlotOf(name) ==
    (IF name[1] = "r" THEN RxPackets ELSE TxPackets)
  + (IF KindOf(name) = C_bytes THEN TxBytes ELSE 0)

\* C7: every recorded slot is (1 if rx, 0 if tx) + (2 if the kind is exactly
\* "bytes", else 0); the name is rx or tx, never both; and the eight names of
\* Scenario 1 give queue count 2, rx-0.rx_packets at RxPackets and
\* tx-0.tx_bytes at TxBytes.
C7_SlotIsDirectionPlusKind ==
    /\ \A k \in DOMAIN qmap :
         /\ StartsWith(names[k + 1], C_rx) # StartsWith(names[k + 1], C_tx)
         /\ qmap[k].offset = SlotOf(names[k + 1])
         /\ qmap[k].offset \in {TxPackets, RxPackets, TxBytes, RxBytes}
         /\ (qmap[k].offset \in {RxPackets, RxBytes}) = (names[k + 1][1] = "r")
         /\ (qmap[k].offset \in {TxBytes, RxBytes}) = (KindOf(names[k + 1]) = C_bytes)
    /\ (names = Scenario1 /\ Built) =>
         /\ qcount = 2
         /\ DOMAIN qmap = 0..7
         /\ qmap[0] = [queue |-> 0, offset |-> RxPackets]
         /\ qmap[1] = [queue |-> 0, offset |-> RxBytes]
         /\ qmap[2] = [queue |-> 0, offset |-> TxPackets]
         /\ qmap[3] = [queue |-> 0, offset |-> TxBytes]
         /\ qmap[7] = [queue |-> 1, offset |-> TxBytes]

C7_Witness ==
    /\ names = Scenario1 /\ pc = "run"
    /\ qmap[0].offset = RxPackets /\ qmap[3].offset = TxBytes

\* ------------------------------------------------------------------ C3
\* a get_deltas step that ran to its end
TickStep == pc = "sleep" /\ pc' = "redraw"

\* d is the difference cur - old as an int64_t
IsSignedDiff(d, cur, old) ==
    /\ 0 - HalfMod <= d /\ d < HalfMod
    /\ (d - (cur - old)) % UMod = 0

\* on a tick prev is the projection of the preceding fetch and prev' that of
\* this tick's fetch; every delta is their signed difference
DeltaIsDifference ==
    /\ prev' \in GetStats(Len(names), qmap, qcount, raw')
    /\ DOMAIN delta'.store = 0..(qcount - 1)
    /\ \A q \in 0..(qcount - 1) : \A s \in Slots :
          IsSignedDiff(ToSigned(delta'.store[q][s]), prev'[q][s], prev[q][s])

\* nothing is painted by the seeding fetch, and what a redraw paints are the
\* deltas of its tick
SeedNotShown ==
    /\ pc = "run" => screen' = Blank /\ delta' = delta /\ ticks' = 0
    /\ (pc = "redraw" /\ pc' = "key") =>
          \A q \in 0..(qcount - 1) : \A s \in Slots :
             screen'.rows[q][s] = ToSigned(delta.store[q][s])

\* this tick's fetch and the preceding one returned a counter for every name,
\* and every recorded queue is below qcount: no access of get_stats was out of
\* range
CleanFetches ==
    /\ Len(raw) = Len(names) /\ Len(raw') = Len(names)
    /\ \A k \in DOMAIN qmap : InVector(qmap[k].queue, qcount)

\* C3 as claimed: on every tick each delta is the signed 64-bit difference of
\* this tick's projected value and that of the immediately preceding fetch,
\* negative whenever the counter decreased; the seeding sample is never
\* shown as a delta.  (Stated for the ticks whose fetches were in range.)
C3_DeltaNegativeOnDecrease ==
    [][/\ (TickStep /\ CleanFetches) =>
            /\ DeltaIsDifference
            /\ \A q \in 0..(qcount - 1) : \A s \in Slots :
                  prev'[q][s] < prev[q][s] => ToSigned(delta'.store[q][s]) < 0
       /\ SeedNotShown]_vars

\* C3 amended: as C3, the delta being negative when the counter decreased by
\* at most 2^63 and positive when it decreased by more (the difference is
\* taken modulo 2^64).
C3_DeltaIsSignedDifference ==
    [][/\ TickStep =>
            /\ DeltaIsDifference
            /\ \A q \in 0..(qcount - 1) : \A s \in Slots :
                  LET dec == prev[q][s] - prev'[q][s]
                      d   == ToSigned(delta'.store[q][s])
                  IN  /\ (0 < dec /\ dec <= HalfMod) => (d < 0 /\ d = 0 - dec)
                      /\ dec > HalfMod => (d > 0 /\ d = UMod - dec)
       /\ SeedNotShown]_vars

\* the second tick has shown a negative delta
C3_Witness ==
    /\ pc = "key" /\ ticks = 2
    /\ Len(raw) = Len(names)
    /\ \A k \in DOMAIN qmap : InVector(qmap[k].queue, qcount)
    /\ \E q \in 0..(qcount - 1) : \E s \in Slots :
          /\ screen.rows[q][s] < 0
          /\ screen.rows[q][s] = ToSigned(delta.store[q][s])

\* ------------------------------------------------------------------ C4
\* the sum of the stored deltas of slot s over the queues q..qc-1
RECURSIVE SumDeltas(_, _, _, _)
SumDeltas(d, s, q, qc) ==
    IF q >= qc THEN 0 ELSE d[q][s] + SumDeltas(d, s, q + 1, qc)

\* C4: after every tick, for each of the four slots, total[slot] is the sum
\* over the queues q < qcount of that tick's delta[q][slot] (in the 64-bit
\* arithmetic of the counters), with nothing left from an earlier tick.
C4_TotalIsSumOfDeltas ==
    (ticks > 0 /\ pc \in {"redraw", "key", "sleep", "exit"}) =>
        /\ DOMAIN total = Slots
        /\ \A s \in Slots :
              /\ total[s] = SumDeltas(delta.store, s, 0, qcount) % UMod
              /\ (ToSigned(total[s])
                    - SumDeltas([q \in 0..(qcount - 1) |->
                                   [t \in Slots |-> ToSigned(delta.store[q][t])]],
                                s, 0, qcount)) % UMod = 0

\* two queues, a second tick, both deltas and the total non-zero
C4_Witness ==
    /\ ticks = 2 /\ pc = "redraw" /\ qcount = 2
    /\ Len(raw) = Len(names)
    /\ \A k \in DOMAIN qmap : InVector(qmap[k].queue, qcount)
    /\ delta.store[0][TxBytes] # 0 /\ delta.store[1][TxBytes] # 0
    /\ total[TxBytes] # 0

\* ------------------------------------------------------------------ C5
\* the highest source index recorded in the index map
MaxId(qm) == CHOOSE id \in DOMAIN qm : \A k \in DOMAIN qm : k <= id

\* the last fetch returned an array without the highest recorded position
ShortFetch == nfetch > 0 /\ DOMAIN qmap # {} /\ Len(raw) <= MaxId(qmap)

\* C5: a fetch that returns an array too short for the highest source index
\* recorded in the index map ends the run (a fatal error); the run does not go
\* on with a value read outside the array.
C5_ShortFetchIsFatal ==
    ShortFetch => pc \in {"exit", "killed"} /\ (pc = "exit" => res = EXIT_FAILURE)

\* ------------------------------------------------------------------ C8
\* C8: the input check happens once per tick, after the tick's fetch, delta
\* computation and render; on 'q' or 'Q' the run returns 0 at that tick
\* boundary, on anything else the loop goes on to the next tick, and the
\* check leaves prev, delta and total as they are.
C8_QuitCheckedOncePerTick ==
    [][/\ npoll' # npoll =>
            /\ pc = "key" /\ npoll' = npoll + 1
            /\ npoll = ticks - 1 /\ nfetch = ticks + 1
            /\ \A q \in 0..(qcount - 1) : \A s \in Slots :
                  screen.rows[q][s] = ToSigned(delta.store[q][s])
       /\ pc = "key" =>
            /\ npoll' = npoll + 1
            /\ UNCHANGED <<prev, delta, total, ticks, nfetch, screen>>
            /\ IF key' \in {"q", "Q"}
               THEN pc' = "exit" /\ res' = 0 /\ err' = ""
               ELSE pc' = "sleep" /\ res' = UNSET
       /\ pc' = "sleep" => npoll' = ticks'
       /\ pc' \in {"redraw", "key"} => npoll' = ticks' - 1
       /\ (pc' = "exit" /\ pc # "exit" /\ res' = 0) => pc = "key"]_vars

\* a first tick went on after another character, the second ended on 'Q'
C8_Witness ==
    pc = "exit" /\ key = "Q" /\ res = 0 /\ ticks = 2 /\ npoll = 2

\* ------------------------------------------------------------------ C9
\* the last position mapped to the same (queue, slot) as position k
LastFor(k) ==
    CHOOSE j \in DOMAIN qmap :
        /\ qmap[j] = qmap[k]
        /\ \A m \in DOMAIN qmap : qmap[m] = qmap[k] => m <= j

\* the state after a fetch that was projected to its end
Projected == nfetch > 0 /\ pc \in {"sleep", "redraw", "key", "exit"}

\* C9: positions mapped to the same (queue, slot) are no error, and after
\* every fetch the projected value of that (queue, slot) is the raw counter at
\* the last such position; an earlier position contributes nothing.
C9_LastEntryWins ==
    /\ (Built /\ pc # "build") => err = ""
    /\ Projected =>
         \A k \in DOMAIN qmap :
            (InVector(qmap[k].queue, qcount) /\ LastFor(k) < Len(raw)) =>
                prev[qmap[k].queue][qmap[k].offset] = raw[LastFor(k) + 1]

\* two distinct names for (0, TxBytes): the later counter is the one projected
C9_Witness ==
    /\ Projected /\ Len(names) = 2 /\ Len(raw) = 2
    /\ names[1] # names[2]
    /\ DOMAIN qmap = {0, 1} /\ qmap[0] = qmap[1]
    /\ raw[1] # raw[2]
    /\ prev[0][TxBytes] = raw[2]

\* ----------------------------------------------------------------- C10
\* C10: for every accepted list and at every tick, every queue recorded in
\* the index map is below qcount, and prev and delta each hold exactly qcount
\* records when get_deltas indexes them.
C10_IndicesWithinVectors ==
    /\ InRun => \A k \in DOMAIN qmap : InVector(qmap[k].queue, qcount)
    /\ pc = "sleep" =>
         /\ DOMAIN prev = 0..(qcount - 1)
         /\ delta.size = qcount

=============================================================================
